---- MODULE Spec2Model ----
(***************************************************************************)
(* Model of pmpsdb_client/ftp_data.py: the ftp() context manager and the   *)
(* operations built on it (list_filenames, list_file_info, upload_file,    *)
(* upload_filename, download_file_text, download_file_json_dict,           *)
(* compare_file), run against a PLC's FTP server whose answers are         *)
(* nondeterministic; PLCFile.from_list_line; and the methods of            *)
(* pmps_manager/gui.py that call them.                                     *)
(***************************************************************************)
EXTENDS Integers, Sequences, FiniteSets, TLC

VARIABLES
    pc,          \* position of the running call
    op,          \* the running call: its name and arguments
    ncalls,      \* number of calls started so far
    sess,        \* ftp_obj's control connection: "none", "open", "closed"
    pasv,        \* ftp_obj.passiveserver
    rval,        \* ftp()'s local rval
    idx,         \* position of the for loop over DEFAULT_PW
    user,        \* the account the server has this connection logged in as
    rcwd,        \* the server's working directory of this connection
    yielded,     \* ftp() reached its yield: the with-body started
    log,         \* commands sent on this connection, in order
    dirs,        \* directories at the server's root
    files,       \* files[d][n]: content of file n in directory d, or Absent
    lastUpload,  \* history: content of the last upload_file to [d][n]
    byte_chunks, \* download_file_text's byte_chunks
    contents,    \* download_file_text's contents
    names,       \* list_filenames' return value
    local_data,  \* compare_file's local_data
    plc_data,    \* result of download_file_json_dict
    same_file,   \* compare_file's return value
    lines,       \* list_file_info's lines
    info,        \* list_file_info's return value
    caller,      \* the function that called the running one, if any, and its locals
    status,      \* text of the row's 'status' cell
    upload_time, \* text of the row's 'file last uploaded' cell
    device_list, \* items of the device list
    result       \* how the call ended: returned, or raised which error

callVars == <<op, ncalls>>
sessVars == <<sess, pasv, rval, idx, user, rcwd, yielded, log>>
srvVars  == <<dirs, files, lastUpload>>
dataVars == <<byte_chunks, contents, names, local_data, plc_data, same_file>>
listVars == <<lines, info>>
guiVars  == <<caller, status, upload_time, device_list>>
vars     == <<pc, callVars, sessVars, srvVars, dataVars, listVars, guiVars, result>>

----------------------------------------------------------------------------
(* Bounds of the model *)

MaxCalls     == 1  \* calls per behaviour of Spec
MaxTransfers == 2  \* calls per behaviour of SpecTransfer
MaxLen       == 2  \* bytes per ASCII file
MaxEntries   == 2  \* parameter entries per document of SpecCompare
MaxLines     == 2  \* lines per answer to LIST

----------------------------------------------------------------------------
(* Values *)

None     == "<None>"                      \* Python's None
Absent   == <<-1>>                        \* no such file
Unknown  == <<-2>>                        \* history: left by a failed upload
Missing  == <<-3>>                        \* no such local file

DEFAULT_PW == << <<"Administrator", "1">>, <<"webguest", "1">> >>
DIRECTORY  == "pmps"

Hosts      == {"plc1"}
DirArgs    == {None, "", "cfg"}
DirNames   == {DIRECTORY, "cfg"}
FileNames  == {"a.json", "None"}
LocalPaths == {<<"a.json">>, <<"tmp", "a.json">>}

\* what a file may hold: '1' up to MaxLen times, or bytes that are not all ASCII
AsciiContents == {[i \in 1..n |-> 49] : n \in 0..MaxLen}
Contents      == AsciiContents \cup {<<200>>, <<49, 200>>}

\* Python truthiness of an optional string, and `a or b`
Truthy(x) == x # None /\ x # ""
PyOr(a, b) == IF Truthy(a) THEN a ELSE b

\* str() of an optional string, as an f-string formats it
Format(x) == IF x = None THEN "None" ELSE x

\* os.path.basename of a path given by its components
Basename(p) == p[Len(p)]

NoResult == [kind |-> "none", err |-> None]
Returned == [kind |-> "return", err |-> None]
Raised(e) == [kind |-> "raise", err |-> e]

NoJson == [t |-> "none", v |-> 0]

\* the running function was called from outside the package
NoCaller == [name |-> "none", row |-> 0, ping |-> "none"]

----------------------------------------------------------------------------
(* Pure functions *)

\* chr() of an ASCII byte: a text is a sequence of one-character strings
Chr(b) == CASE b = 49 -> "1" [] OTHER -> "?"

DecodeError == <<"UnicodeDecodeError">>

\* bytes.decode('ascii'): strict, a byte above 127 is an error
DecodeAscii(chunk) ==
    IF \E i \in 1..Len(chunk) : chunk[i] >= 128
    THEN DecodeError
    ELSE [i \in 1..Len(chunk) |-> Chr(chunk[i])]

\* contents = ''; for chunk in byte_chunks: contents += chunk.decode('ascii')
RECURSIVE DecodeFrom(_, _)
DecodeFrom(acc, chunks) ==
    IF chunks = <<>> THEN acc
    ELSE LET d == DecodeAscii(Head(chunks))
         IN  IF d = DecodeError THEN DecodeError
             ELSE DecodeFrom(acc \o d, Tail(chunks))

\* mutant: contents = chunk.decode('ascii') in place of +=
DecodeLastChunk(chunks) ==
    IF chunks = <<>> THEN <<>> ELSE DecodeAscii(chunks[Len(chunks)])

DecodeChunks(chunks) == DecodeFrom(<<>>, chunks)

\* the ways a transfer may deliver a file to the callback: any cut of its bytes
\* into non-empty blocks, in order
RECURSIVE Splits(_)
Splits(s) ==
    IF s = <<>> THEN {<<>>}
    ELSE UNION {{<<SubSeq(s, 1, k)>> \o rest : rest \in Splits(SubSeq(s, k + 1, Len(s)))}
                : k \in 1..Len(s)}

Digit(c) == CASE c = "1" -> 1 [] OTHER -> 0

RECURSIVE IntOf(_)
IntOf(text) ==
    IF text = <<>> THEN 0
    ELSE IntOf(SubSeq(text, 1, Len(text) - 1)) * 10 + Digit(text[Len(text)])

JsonError == [t |-> "error", v |-> 0]

\* json.loads on a text over the digit '1': a non-empty digit string is an
\* integer, the empty text is no JSON document
JsonLoads(text) ==
    IF text # <<>> /\ \A i \in 1..Len(text) : text[i] = "1"
    THEN [t |-> "int", v |-> IntOf(text)]
    ELSE JsonError

\* Python's == on parsed JSON values.  A scalar is [t, v]: t its type and v its
\* number (a bool is the int 0 or 1; a str carries the number it prints as).  A
\* dict is [t |-> "dict", items |-> <<[k, v], ...>>] in insertion order, keys unique.
\* mutant: the values compared by what they print as
PyEqPrinted(a, b) ==
    IF a.t = "dict" /\ b.t = "dict"
    THEN /\ Len(a.items) = Len(b.items)
         /\ \A i \in 1..Len(a.items) :
                \E j \in 1..Len(b.items) :
                    /\ b.items[j].k = a.items[i].k
                    /\ Len(a.items[i].v.items) = Len(b.items[j].v.items)
                    /\ \A m \in 1..Len(a.items[i].v.items) :
                           \E n \in 1..Len(b.items[j].v.items) :
                               /\ b.items[j].v.items[n].k = a.items[i].v.items[m].k
                               /\ b.items[j].v.items[n].v.v = a.items[i].v.items[m].v.v
    ELSE a.v = b.v

\* mutant: the documents compared as lists of entries, in their order
PyEqOrdered(a, b) == a = b

RECURSIVE PyEq(_, _)
PyEq(a, b) ==
    IF a.t = "dict" /\ b.t = "dict"
    THEN /\ Len(a.items) = Len(b.items)
         /\ \A i \in 1..Len(a.items) :
                \E j \in 1..Len(b.items) :
                    /\ b.items[j].k = a.items[i].k
                    /\ PyEq(a.items[i].v, b.items[j].v)
    ELSE IF a.t = "dict" \/ b.t = "dict" THEN FALSE
    ELSE IF a.t = "str" \/ b.t = "str" THEN a.t = b.t /\ a.v = b.v
    ELSE a.v = b.v

----------------------------------------------------------------------------
(* PLCFile.from_list_line.  A line is a text: a sequence of one-character    *)
(* strings.                                                                  *)

Digits == <<"0", "1", "2", "3", "4", "5", "6", "7", "8", "9">>

IsDigit(c) == \E d \in 1..Len(Digits) : Digits[d] = c

DigitValue(c) == (CHOOSE d \in 1..Len(Digits) : Digits[d] = c) - 1

\* str.split(): the maximal runs of characters that are not whitespace
RECURSIVE SplitFrom(_, _, _)
SplitFrom(text, word, acc) ==
    IF text = <<>>
    THEN IF word = <<>> THEN acc ELSE Append(acc, word)
    ELSE IF Head(text) = " "
    THEN SplitFrom(Tail(text), <<>>, IF word = <<>> THEN acc ELSE Append(acc, word))
    ELSE SplitFrom(Tail(text), Append(word, Head(text)), acc)

Split(text) == SplitFrom(text, <<>>, <<>>)

\* str.split(sep): the pieces between the separators, empty pieces included
RECURSIVE SplitOnFrom(_, _, _, _)
SplitOnFrom(text, sep, word, acc) ==
    IF text = <<>> THEN Append(acc, word)
    ELSE IF Head(text) = sep
    THEN SplitOnFrom(Tail(text), sep, <<>>, Append(acc, word))
    ELSE SplitOnFrom(Tail(text), sep, Append(word, Head(text)), acc)

SplitOn(text, sep) == SplitOnFrom(text, sep, <<>>, <<>>)

RECURSIVE Number(_)
Number(digits) ==
    IF digits = <<>> THEN 0
    ELSE Number(SubSeq(digits, 1, Len(digits) - 1)) * 10 + DigitValue(digits[Len(digits)])

Signed(text) == text # <<>> /\ Head(text) \in {"+", "-"}

Unsigned(text) == IF Signed(text) THEN Tail(text) ELSE text

\* int(text) succeeds: an optional sign, then one or more digits
IsInt(text) ==
    /\ Unsigned(text) # <<>>
    /\ \A i \in 1..Len(Unsigned(text)) : IsDigit(Unsigned(text)[i])

\* int(text), where it succeeds
int(text) ==
    IF Signed(text) /\ Head(text) = "-"
    THEN 0 - Number(Unsigned(text))
    ELSE Number(Unsigned(text))

IsLeap(year) == year % 4 = 0 /\ (year % 100 # 0 \/ year % 400 = 0)

DaysInMonth(year, month) ==
    CASE month = 2 -> IF IsLeap(year) THEN 29 ELSE 28
      [] month \in {4, 6, 9, 11} -> 30
      [] OTHER -> 31

\* datetime.datetime(year, month, day, hour, minute) accepts its arguments
ValidDatetime(year, month, day, hour, minute) ==
    /\ year \in 1..9999
    /\ month \in 1..12
    /\ day \in 1..DaysInMonth(year, month)
    /\ hour \in 0..23
    /\ minute \in 0..59

\* mutant: month=int(day), day=int(month)
datetime_day_first(year, month, day, hour, minute) ==
    [year |-> year, month |-> day, day |-> month, hour |-> hour, minute |-> minute]

datetime(year, month, day, hour, minute) ==
    [year |-> year, month |-> month, day |-> day, hour |-> hour, minute |-> minute]

PLCFile(filename, create_time, size) ==
    [filename |-> filename, create_time |-> create_time, size |-> size]

NoTime == datetime(0, 0, 0, 0, 0)

\* the text of a cell: a fixed string, or create_time.ctime()
Text(string) == [text |-> string, time |-> NoTime]

ctime(create_time) == [text |-> "ctime", time |-> create_time]

\* the ValueError of an unpacking, of int() or of datetime()
ValueError == [error |-> "ValueError"]

\* lines 142-155: the record of the four tokens of a line
FromTokens(date_token, time_token, size_token, filename) ==
    LET date == SplitOn(date_token, "-")
        time == SplitOn(time_token, ":")
    IN  IF Len(date) # 3 \/ Len(time) # 2 THEN ValueError
        ELSE IF \E part \in {date[3], date[1], date[2], time[1], time[2]} : ~IsInt(part)
        THEN ValueError
        ELSE IF ~ValidDatetime(int(date[3]) + 2000, int(date[1]), int(date[2]),
                               int(time[1]), int(time[2]))
        THEN ValueError
        ELSE IF ~IsInt(size_token) THEN ValueError
        ELSE PLCFile(filename,
                     datetime(int(date[3]) + 2000, int(date[1]), int(date[2]),
                              int(time[1]), int(time[2])),
                     int(size_token))

\* mutant: date, time, size, filename = line.split()[:4]
from_list_line_first_four(line) ==
    LET tokens == Split(line)
    IN  IF Len(tokens) < 4 THEN ValueError
        ELSE FromTokens(tokens[1], tokens[2], tokens[3], tokens[4])

\* date, time, size, filename = line.split(), and on from there
from_list_line(line) ==
    LET tokens == Split(line)
    IN  IF Len(tokens) # 4 THEN ValueError
        ELSE FromTokens(tokens[1], tokens[2], tokens[3], tokens[4])

----------------------------------------------------------------------------
(* The server's answers *)

\* what a command may be answered with: done, refused (ftplib.error_perm), or
\* failed otherwise (error_temp, error_proto, timeout, EOFError).  A connection
\* that is not logged in gets every file command refused.
Answers(u) == IF u = "none" THEN {"perm"} ELSE {"ok", "perm", "other"}

ErrorOf(ans) == IF ans = "perm" THEN "error_perm" ELSE "error_other"

\* a command as sent: its argument, the answer, and the connection's transfer
\* mode and remote directory at that time
Entry(cmd, arg, ans) ==
    [cmd |-> cmd, arg |-> arg, ans |-> ans, ok |-> (ans = "ok"), pasv |-> pasv, cwd |-> rcwd]

\* the PLC's LIST output, as in the sample line of from_list_line's docstring:
\* MM-DD-YY, HH:MM, the size and the name, in columns
Spaces(n) == [i \in 1..n |-> " "]

TwoDigits(n) == <<Digits[(n \div 10) + 1], Digits[(n % 10) + 1]>>

RECURSIVE Decimal(_)
Decimal(n) ==
    IF n < 10 THEN <<Digits[n + 1]>>
    ELSE Decimal(n \div 10) \o <<Digits[(n % 10) + 1]>>

ListLine(month, day, year, hour, minute, size, filename, gap) ==
    TwoDigits(month) \o <<"-">> \o TwoDigits(day) \o <<"-">> \o TwoDigits(year)
        \o Spaces(gap) \o TwoDigits(hour) \o <<":">> \o TwoDigits(minute)
        \o Spaces(gap) \o Decimal(size) \o Spaces(gap) \o filename

\* 11-04-22  13:59                16439 kfe-motion.json
SampleLine ==
    TwoDigits(11) \o <<"-">> \o TwoDigits(4) \o <<"-">> \o TwoDigits(22) \o Spaces(2)
        \o TwoDigits(13) \o <<":">> \o TwoDigits(59) \o Spaces(16) \o Decimal(16439)
        \o Spaces(1)
        \o <<"k", "f", "e", "-", "m", "o", "t", "i", "o", "n", ".", "j", "s", "o", "n">>

\* f'{hostname}.json'
HostJson(hostname) ==
    CASE hostname = "plc1" -> <<"p", "l", "c", "1", ".", "j", "s", "o", "n">>

\* lines a LIST may answer with: the sample, the host's own file, a file whose
\* name holds a space, a line without a name, an empty line, a date that is
\* none
ListLines ==
    {SampleLine,
     ListLine(2, 29, 24, 0, 5, 0, HostJson("plc1"), 1),
     ListLine(1, 2, 23, 23, 59, 7, <<"m", "y", " ", "f">>, 1),
     TwoDigits(1) \o <<"-">> \o TwoDigits(2) \o <<"-">> \o TwoDigits(23) \o Spaces(1)
        \o TwoDigits(0) \o <<":">> \o TwoDigits(0) \o Spaces(1) \o Decimal(7),
     <<>>,
     ListLine(2, 30, 22, 0, 0, 1, <<"b">>, 1)}

ListOutputs == UNION {[1..n -> ListLines] : n \in 0..MaxLines}

----------------------------------------------------------------------------
(* Calls *)

\* a call: the function and its arguments.  filename is target_filename,
\* filename or plc_filename; what fd and the local file hold is read when the
\* call reads them.
Op(name, hostname, directory, filename, local_filename) ==
    [name |-> name, hostname |-> hostname, directory |-> directory,
     filename |-> filename, local_filename |-> local_filename]

Transfers ==
    {Op(f, h, d, n, <<>>) :
        f \in {"upload_file", "download_file_text"},
        h \in Hosts, d \in DirArgs, n \in FileNames}

Calls ==
    Transfers
    \cup {Op("list_filenames", h, d, None, <<>>) : h \in Hosts, d \in DirArgs}
    \cup {Op("download_file_json_dict", h, d, n, <<>>) :
            h \in Hosts, d \in DirArgs, n \in FileNames}
    \cup {Op("compare_file", h, d, n, p) :
            h \in Hosts, d \in DirArgs, n \in {None, "a.json"}, p \in LocalPaths}

\* the calls of every public function of the module
AllCalls ==
    Calls
    \cup {Op("list_file_info", h, d, None, <<>>) : h \in Hosts, d \in DirArgs}
    \cup {Op("upload_filename", h, d, n, p) :
            h \in Hosts, d \in DirArgs, n \in {None, "a.json"}, p \in LocalPaths}

Downloads == {"download_file_text", "download_file_json_dict", "compare_file"}

\* a PLC whose FTP root is empty
FreshServer ==
    /\ dirs = {}
    /\ files = [d \in DirNames |-> [n \in FileNames |-> Absent]]

\* a PLC that holds a file a.json in pmps, put there by an earlier upload_file
ServerWith(data) ==
    /\ dirs = {DIRECTORY}
    /\ files = [d \in DirNames |-> [n \in FileNames |->
                    IF d = DIRECTORY /\ n = "a.json" THEN data ELSE Absent]]

\* no call has started
Idle ==
    /\ pc = "idle"
    /\ op = Op("none", None, None, None, <<>>)
    /\ ncalls = 0
    /\ sess = "none" /\ pasv = TRUE /\ rval = None /\ idx = 1
    /\ user = "none" /\ rcwd = "/" /\ yielded = FALSE /\ log = <<>>
    /\ byte_chunks = <<>> /\ contents = <<>> /\ names = {}
    /\ local_data = NoJson /\ plc_data = NoJson /\ same_file = FALSE
    /\ lines = <<>> /\ info = <<>>
    /\ caller = NoCaller /\ status = Text("") /\ upload_time = Text("") /\ device_list = <<>>
    /\ result = NoResult

Init ==
    /\ Idle
    /\ FreshServer \/ \E data \in Contents : ServerWith(data)
    /\ lastUpload = files

InitTransfer ==
    /\ Idle
    /\ FreshServer \/ ServerWith(<<49>>)
    /\ lastUpload = files

\* mutant: compare_file with the device's document loaded before the local one
StartDeviceFirst(calls, max) ==
    /\ pc \in {"idle", "done"}
    /\ ncalls < max
    /\ \E c \in calls :
        /\ op' = c
        /\ pc' = IF c.name = "upload_filename" THEN "open" ELSE "connect"
    /\ ncalls' = ncalls + 1
    /\ sess' = "none" /\ pasv' = TRUE /\ rval' = None /\ idx' = 1
    /\ user' = "none" /\ rcwd' = "/" /\ yielded' = FALSE /\ log' = <<>>
    /\ byte_chunks' = <<>> /\ contents' = <<>> /\ names' = {}
    /\ local_data' = NoJson /\ plc_data' = NoJson /\ same_file' = FALSE
    /\ lines' = <<>> /\ info' = <<>>
    /\ caller' = NoCaller
    /\ result' = NoResult
    /\ UNCHANGED <<srvVars, status, upload_time, device_list>>

\* a call starts: nothing of the previous call's session is carried over
Start(calls, max) ==
    /\ pc \in {"idle", "done"}
    /\ ncalls < max
    /\ \E c \in calls :
        /\ op' = c
        /\ pc' = CASE c.name = "compare_file" -> "local"
                   [] c.name = "upload_filename" -> "open"
                   [] OTHER -> "connect"
    /\ ncalls' = ncalls + 1
    /\ sess' = "none" /\ pasv' = TRUE /\ rval' = None /\ idx' = 1
    /\ user' = "none" /\ rcwd' = "/" /\ yielded' = FALSE /\ log' = <<>>
    /\ byte_chunks' = <<>> /\ contents' = <<>> /\ names' = {}
    /\ local_data' = NoJson /\ plc_data' = NoJson /\ same_file' = FALSE
    /\ lines' = <<>> /\ info' = <<>>
    /\ caller' = NoCaller
    /\ result' = NoResult
    /\ UNCHANGED <<srvVars, status, upload_time, device_list>>

Call == Start(Calls, MaxCalls)

Transfer == Start(Transfers, MaxTransfers)

\* an exception leaves the call
Raise(e) == pc' = "done" /\ result' = Raised(e)

\* the text of a local file opened with open(filename, 'r'): a byte above 127
\* is no text in the locale's encoding, or a character no JSON document holds
\* outside a string
LocalText(data) ==
    IF \E i \in 1..Len(data) : data[i] >= 128 THEN DecodeError
    ELSE [i \in 1..Len(data) |-> Chr(data[i])]

\* local_file_json_dict: with open(filename, 'r') as fd: return json.load(fd)
local_file_json_dict ==
    /\ pc = "local"
    /\ \E data \in Contents \cup {Missing} :
       IF data = Missing
       THEN Raise("FileNotFoundError") /\ UNCHANGED local_data
       ELSE IF LocalText(data) = DecodeError
       THEN /\ \E e \in {"UnicodeDecodeError", "JSONDecodeError"} : Raise(e)
            /\ UNCHANGED local_data
       ELSE IF JsonLoads(LocalText(data)) = JsonError
       THEN Raise("JSONDecodeError") /\ UNCHANGED local_data
       ELSE /\ local_data' = JsonLoads(LocalText(data))
            /\ pc' = "connect"
            /\ UNCHANGED result
    /\ UNCHANGED <<callVars, sessVars, srvVars, byte_chunks, contents, names,
                   plc_data, same_file>>
    /\ UNCHANGED <<listVars, guiVars>>

\* upload_filename: with open(filename, 'rb') as fd: upload_file(hostname,
\* dest_filename or os.path.basename(filename), fd, directory)
upload_filename ==
    /\ pc = "open"
    /\ \E exists \in BOOLEAN :
        IF exists
        THEN /\ op' = Op("upload_file", op.hostname, op.directory,
                         PyOr(op.filename, Basename(op.local_filename)), <<>>)
             /\ caller' = [name |-> "upload_filename", row |-> 0, ping |-> "none"]
             /\ pc' = "connect"
             /\ UNCHANGED result
        ELSE Raise("FileNotFoundError") /\ UNCHANGED <<op, caller>>
    /\ UNCHANGED <<ncalls, sessVars, srvVars, dataVars, listVars, status, upload_time,
                   device_list>>

----------------------------------------------------------------------------
(* ftp(): the context manager, step by step *)

\* directory = directory or DIRECTORY
Directory == PyOr(op.directory, DIRECTORY)

\* ftp_obj = ftplib.FTP(hostname, timeout=2.0): the constructor connects
Connect ==
    /\ pc = "connect"
    /\ \E reachable \in BOOLEAN :
        IF reachable
        THEN sess' = "open" /\ pc' = "set_pasv" /\ UNCHANGED result
        ELSE sess' = sess /\ Raise("Unreachable")
    /\ UNCHANGED <<callVars, pasv, rval, idx, user, rcwd, yielded, log, srvVars, dataVars>>
    /\ UNCHANGED <<listVars, guiVars>>

\* mutant: the transfer mode left as ftplib sets it up, passive
SetPasvDefault ==
    /\ pc = "set_pasv"
    /\ pasv' = pasv
    /\ pc' = "login"
    /\ UNCHANGED <<callVars, sess, rval, idx, user, rcwd, yielded, log, srvVars,
                   dataVars, result>>
    /\ UNCHANGED <<listVars, guiVars>>

\* ftp_obj.set_pasv(False)
SetPasv ==
    /\ pc = "set_pasv"
    /\ pasv' = FALSE
    /\ pc' = "login"
    /\ UNCHANGED <<callVars, sess, rval, idx, user, rcwd, yielded, log, srvVars,
                   dataVars, result>>
    /\ UNCHANGED <<listVars, guiVars>>

\* FTP.login returns the server's 2xx response, and raises on any other
LoginResponse(ans) == IF ans = "ok" THEN "230" ELSE None

\* the account of the connection after a refused login: the server keeps the
\* earlier login or drops it
AfterRefusal(u) == {u, "none"}

\* after the body of the for loop: the next entry, or on to the fallback
LoopNext(i) == IF i < Len(DEFAULT_PW) THEN "login" ELSE "anon"

\* mutant: except ftplib.all_errors: pass
LoginAnyError ==
    /\ pc = "login"
    /\ \E ans \in {"ok", "perm", "other"} :
        /\ log' = Append(log, Entry("LOGIN", DEFAULT_PW[idx][1], ans))
        /\ IF ans = "ok"
           THEN rval' = LoginResponse(ans) /\ user' = DEFAULT_PW[idx][1]
           ELSE rval' = rval /\ user' \in AfterRefusal(user)
        /\ idx' = idx + 1
        /\ pc' = LoopNext(idx)
        /\ UNCHANGED result
    /\ UNCHANGED <<callVars, sess, pasv, rcwd, yielded, srvVars, dataVars>>
    /\ UNCHANGED <<listVars, guiVars>>

\* one turn of: for user, pwd in DEFAULT_PW: try: rval = ftp_obj.login(...)
\*                                           except ftplib.error_perm: pass
Login ==
    /\ pc = "login"
    /\ \E ans \in {"ok", "perm", "other"} :
        /\ log' = Append(log, Entry("LOGIN", DEFAULT_PW[idx][1], ans))
        /\ CASE ans = "ok" ->
                  /\ rval' = LoginResponse(ans)
                  /\ user' = DEFAULT_PW[idx][1]
                  /\ idx' = idx + 1
                  /\ pc' = LoopNext(idx)
                  /\ UNCHANGED result
             [] ans = "perm" ->
                  /\ user' \in AfterRefusal(user)
                  /\ idx' = idx + 1
                  /\ pc' = LoopNext(idx)
                  /\ UNCHANGED <<rval, result>>
             [] OTHER ->
                  /\ user' \in AfterRefusal(user)
                  /\ Raise(ErrorOf(ans))
                  /\ UNCHANGED <<rval, idx>>
    /\ UNCHANGED <<callVars, sess, pasv, rcwd, yielded, srvVars, dataVars>>
    /\ UNCHANGED <<listVars, guiVars>>

\* if rval is None: rval = ftp_obj.login()
\* if rval is None: raise RuntimeError(...)
AnonymousLogin ==
    /\ pc = "anon"
    /\ IF rval = None
       THEN \E ans \in {"ok", "perm", "other"} :
            /\ log' = Append(log, Entry("LOGIN", "anonymous", ans))
            /\ IF ans = "ok"
               THEN /\ rval' = LoginResponse(ans)
                    /\ user' = "anonymous"
                    /\ IF rval' = None
                       THEN Raise("RuntimeError")
                       ELSE pc' = "nlst" /\ UNCHANGED result
               ELSE /\ user' \in AfterRefusal(user)
                    /\ Raise(ErrorOf(ans))
                    /\ UNCHANGED rval
       ELSE /\ pc' = "nlst"
            /\ UNCHANGED <<rval, user, log, result>>
    /\ UNCHANGED <<callVars, sess, pasv, idx, rcwd, yielded, srvVars, dataVars>>
    /\ UNCHANGED <<listVars, guiVars>>

\* mutant: the directory made without a look at the listing
NlstThenMkd ==
    /\ pc = "nlst"
    /\ \E ans \in Answers(user) :
        /\ log' = Append(log, Entry("NLST", "", ans))
        /\ IF ans = "ok"
           THEN pc' = "mkd" /\ UNCHANGED result
           ELSE Raise(ErrorOf(ans))
    /\ UNCHANGED <<callVars, sess, pasv, rval, idx, user, rcwd, yielded, srvVars, dataVars>>
    /\ UNCHANGED <<listVars, guiVars>>

\* if directory not in ftp_obj.nlst(): the listing of the root
Nlst ==
    /\ pc = "nlst"
    /\ \E ans \in Answers(user) :
        /\ log' = Append(log, Entry("NLST", "", ans))
        /\ IF ans = "ok"
           THEN /\ pc' = IF Directory \notin dirs THEN "mkd" ELSE "cwd"
                /\ UNCHANGED result
           ELSE Raise(ErrorOf(ans))
    /\ UNCHANGED <<callVars, sess, pasv, rval, idx, user, rcwd, yielded, srvVars, dataVars>>
    /\ UNCHANGED <<listVars, guiVars>>

\* ftp_obj.mkd(directory)
Mkd ==
    /\ pc = "mkd"
    /\ \E ans \in Answers(user) :
        /\ log' = Append(log, Entry("MKD", Directory, ans))
        /\ IF ans = "ok"
           THEN /\ dirs' = dirs \cup {Directory}
                /\ pc' = "cwd"
                /\ UNCHANGED result
           ELSE Raise(ErrorOf(ans)) /\ UNCHANGED dirs
    /\ UNCHANGED <<callVars, sess, pasv, rval, idx, user, rcwd, yielded, files,
                   lastUpload, dataVars>>
    /\ UNCHANGED <<listVars, guiVars>>

\* ftp_obj.cwd(directory), then yield ftp_obj
Cwd ==
    /\ pc = "cwd"
    /\ \E ans \in Answers(user) :
        /\ log' = Append(log, Entry("CWD", Directory, ans))
        /\ IF ans = "ok"
           THEN /\ rcwd' = Directory
                /\ yielded' = TRUE
                /\ pc' = "body"
                /\ UNCHANGED result
           ELSE Raise(ErrorOf(ans)) /\ UNCHANGED <<rcwd, yielded>>
    /\ UNCHANGED <<callVars, sess, pasv, rval, idx, user, srvVars, dataVars>>
    /\ UNCHANGED <<listVars, guiVars>>

\* after the yield: try: ftp_obj.quit().  FTP.quit closes the socket once the
\* server has answered QUIT.
Quit ==
    /\ pc = "quit"
    /\ \E ans \in {"ok", "perm", "other"} :
        /\ log' = Append(log, Entry("QUIT", "", ans))
        /\ IF ans = "ok"
           THEN sess' = "closed" /\ pc' = "post"
           ELSE sess' = sess /\ pc' = "close"
    /\ UNCHANGED <<callVars, pasv, rval, idx, user, rcwd, yielded, srvVars, dataVars, result>>
    /\ UNCHANGED <<listVars, guiVars>>

\* except Exception: ftp_obj.close()
Close ==
    /\ pc = "close"
    /\ sess' = "closed"
    /\ pc' = "post"
    /\ UNCHANGED <<callVars, pasv, rval, idx, user, rcwd, yielded, log, srvVars,
                   dataVars, result>>
    /\ UNCHANGED <<listVars, guiVars>>

----------------------------------------------------------------------------
(* The with-bodies.  An exception of the body is thrown into ftp() at its     *)
(* yield, which is inside no try: it leaves ftp() there, and the lines after  *)
(* the yield do not run.                                                      *)

FilesIn(d) == {n \in FileNames : files[d][n] # Absent}

\* list_filenames: return ftp_obj.nlst()
BodyNlst ==
    /\ pc = "body"
    /\ op.name = "list_filenames"
    /\ \E ans \in Answers(user) :
        /\ log' = Append(log, Entry("NLST", "", ans))
        /\ IF ans = "ok"
           THEN names' = FilesIn(rcwd) /\ pc' = "quit" /\ UNCHANGED result
           ELSE Raise(ErrorOf(ans)) /\ UNCHANGED names
    /\ UNCHANGED <<callVars, sess, pasv, rval, idx, user, rcwd, yielded, srvVars,
                   byte_chunks, contents, local_data, plc_data, same_file>>
    /\ UNCHANGED <<listVars, guiVars>>

\* what a store that broke off may leave of the file: what was there, or a
\* proper prefix of the new bytes
Partial(old, new) == {old} \cup {SubSeq(new, 1, k) : k \in 0..(Len(new) - 1)}

\* upload_file: ftp_obj.storbinary(f'STOR {target_filename}', fd)
BodyStor ==
    /\ pc = "body"
    /\ op.name = "upload_file"
    /\ \E ans \in Answers(user), data \in Contents :
        /\ log' = Append(log, Entry("STOR", Format(op.filename), ans))
        /\ IF ans = "ok"
           THEN /\ files' = [files EXCEPT ![rcwd][Format(op.filename)] = data]
                /\ lastUpload' = [lastUpload EXCEPT ![Directory][op.filename] = data]
                /\ pc' = "quit"
                /\ UNCHANGED result
           ELSE /\ \E left \in Partial(files[rcwd][Format(op.filename)], data) :
                     files' = [files EXCEPT ![rcwd][Format(op.filename)] = left]
                /\ lastUpload' = [lastUpload EXCEPT ![Directory][op.filename] =
                                    IF files' = files THEN @ ELSE Unknown]
                /\ Raise(ErrorOf(ans))
    /\ UNCHANGED <<callVars, sess, pasv, rval, idx, user, rcwd, yielded, dirs, dataVars>>
    /\ UNCHANGED <<listVars, guiVars>>

\* the answers to RETR: a file that is not there is refused
RetrAnswers(u, d, n) == IF files[d][n] = Absent THEN {"perm"} ELSE Answers(u)

\* download_file_text: ftp_obj.retrbinary(f'RETR {filename}', byte_chunks.append)
BodyRetr ==
    /\ pc = "body"
    /\ op.name \in Downloads
    /\ \E ans \in RetrAnswers(user, rcwd, Format(op.filename)) :
        /\ log' = Append(log, Entry("RETR", Format(op.filename), ans))
        /\ IF ans = "ok"
           THEN /\ byte_chunks' \in Splits(files[rcwd][Format(op.filename)])
                /\ pc' = "quit"
                /\ UNCHANGED result
           ELSE Raise(ErrorOf(ans)) /\ UNCHANGED byte_chunks
    /\ UNCHANGED <<callVars, sess, pasv, rval, idx, user, rcwd, yielded, srvVars,
                   contents, names, local_data, plc_data, same_file>>
    /\ UNCHANGED <<listVars, guiVars>>

\* mutant: the lines parsed as they arrive, inside the with-block
BodyListParsing ==
    /\ pc = "body"
    /\ op.name = "list_file_info"
    /\ \E ans \in Answers(user) :
        /\ log' = Append(log, Entry("LIST", "", ans))
        /\ IF ans = "ok"
           THEN /\ lines' \in ListOutputs
                /\ IF \E i \in 1..Len(lines') : from_list_line(lines'[i]) = ValueError
                   THEN Raise("ValueError")
                   ELSE pc' = "quit" /\ UNCHANGED result
           ELSE /\ lines' \in IF ans = "perm" THEN {lines} ELSE ListOutputs
                /\ Raise(ErrorOf(ans))
    /\ UNCHANGED <<callVars, sess, pasv, rval, idx, user, rcwd, yielded, srvVars,
                   dataVars, info, guiVars>>

\* list_file_info: ftp_obj.retrlines('LIST', lines.append).  A transfer that
\* breaks off has appended the lines that arrived.
BodyList ==
    /\ pc = "body"
    /\ op.name = "list_file_info"
    /\ \E ans \in Answers(user) :
        /\ log' = Append(log, Entry("LIST", "", ans))
        /\ IF ans = "ok"
           THEN /\ lines' \in ListOutputs
                /\ pc' = "quit"
                /\ UNCHANGED result
           ELSE /\ lines' \in IF ans = "perm" THEN {lines} ELSE ListOutputs
                /\ Raise(ErrorOf(ans))
    /\ UNCHANGED <<callVars, sess, pasv, rval, idx, user, rcwd, yielded, srvVars,
                   dataVars, info, guiVars>>

----------------------------------------------------------------------------
(* After the with-block *)

\* list_filenames and upload_file return
Return ==
    /\ pc = "post"
    /\ op.name \in {"list_filenames", "upload_file"}
    /\ pc' = "done"
    /\ result' = Returned
    /\ UNCHANGED <<callVars, sessVars, srvVars, dataVars>>
    /\ UNCHANGED <<listVars, guiVars>>

\* list_file_info: return [PLCFile.from_list_line(line) for line in lines]
ParseLines ==
    /\ pc = "post"
    /\ op.name = "list_file_info"
    /\ IF \E i \in 1..Len(lines) : from_list_line(lines[i]) = ValueError
       THEN Raise("ValueError") /\ UNCHANGED info
       ELSE /\ info' = [i \in 1..Len(lines) |-> from_list_line(lines[i])]
            /\ pc' = "done"
            /\ result' = Returned
    /\ UNCHANGED <<callVars, sessVars, srvVars, dataVars, lines, guiVars>>

\* download_file_text: the loop over byte_chunks, and its return
Decode ==
    /\ pc = "post"
    /\ op.name \in Downloads
    /\ IF DecodeChunks(byte_chunks) = DecodeError
       THEN Raise("UnicodeDecodeError") /\ UNCHANGED contents
       ELSE /\ contents' = DecodeChunks(byte_chunks)
            /\ IF op.name = "download_file_text"
               THEN pc' = "done" /\ result' = Returned
               ELSE pc' = "loads" /\ UNCHANGED result
    /\ UNCHANGED <<callVars, sessVars, srvVars, byte_chunks, names, local_data,
                   plc_data, same_file>>
    /\ UNCHANGED <<listVars, guiVars>>

\* mutant: a file that does not parse taken for an empty document
LoadsOrEmpty ==
    /\ pc = "loads"
    /\ plc_data' = IF JsonLoads(contents) = JsonError
                   THEN [t |-> "dict", items |-> <<>>]
                   ELSE JsonLoads(contents)
    /\ IF op.name = "download_file_json_dict"
       THEN pc' = "done" /\ result' = Returned
       ELSE pc' = "compare" /\ UNCHANGED result
    /\ UNCHANGED <<callVars, sessVars, srvVars, byte_chunks, contents, names,
                   local_data, same_file>>
    /\ UNCHANGED <<listVars, guiVars>>

\* download_file_json_dict: json.loads(download_file_text(...))
Loads ==
    /\ pc = "loads"
    /\ IF JsonLoads(contents) = JsonError
       THEN Raise("JSONDecodeError") /\ UNCHANGED plc_data
       ELSE /\ plc_data' = JsonLoads(contents)
            /\ IF op.name = "download_file_json_dict"
               THEN pc' = "done" /\ result' = Returned
               ELSE pc' = "compare" /\ UNCHANGED result
    /\ UNCHANGED <<callVars, sessVars, srvVars, byte_chunks, contents, names,
                   local_data, same_file>>
    /\ UNCHANGED <<listVars, guiVars>>

\* compare_file: return local_data == plc_data
Compare ==
    /\ pc = "compare"
    /\ same_file' = PyEq(local_data, plc_data)
    /\ pc' = "done"
    /\ result' = Returned
    /\ UNCHANGED <<callVars, sessVars, srvVars, byte_chunks, contents, names,
                   local_data, plc_data>>
    /\ UNCHANGED <<listVars, guiVars>>

Next ==
    \/ Call
    \/ local_file_json_dict
    \/ Connect
    \/ SetPasv
    \/ Login
    \/ AnonymousLogin
    \/ Nlst
    \/ Mkd
    \/ Cwd
    \/ BodyNlst
    \/ BodyStor
    \/ BodyRetr
    \/ Quit
    \/ Close
    \/ Return
    \/ Decode
    \/ Loads
    \/ Compare

Spec == Init /\ [][Next]_vars

\* uploads and downloads only, in longer runs
NextTransfer ==
    \/ Transfer
    \/ Connect
    \/ SetPasv
    \/ Login
    \/ AnonymousLogin
    \/ Nlst
    \/ Mkd
    \/ Cwd
    \/ BodyStor
    \/ BodyRetr
    \/ Quit
    \/ Close
    \/ Return
    \/ Decode

SpecTransfer == InitTransfer /\ [][NextTransfer]_vars

----------------------------------------------------------------------------
(* Claims about the session's lifetime and the login *)

Done == pc = "done"

Logins == {i \in 1..Len(log) : log[i].cmd = "LOGIN"}

Accepted == {i \in Logins : log[i].ok}

\* C1: once the with-body of ftp() has started, the call does not finish with
\* its session still open, whether the body returned or raised.
C1_SessionReleased ==
    (Done /\ yielded) => sess = "closed"

\* C2: no login attempt is made after a login attempt that the host accepted.
C2_StopsAtFirstSuccess ==
    \A i \in Accepted : \A j \in Logins : j <= i

\* C3: a yielded session is logged in as the first entry of DEFAULT_PW the host
\* accepted, and anonymously only if the host refused every entry.
C3_FirstAcceptedCredential ==
    (pc = "body") =>
        /\ Accepted # {}
        /\ \E i \in Accepted :
            /\ \A j \in Accepted : i <= j
            /\ user = log[i].arg
        /\ (user = "anonymous" =>
                \A k \in 1..Len(DEFAULT_PW) : k \in Logins /\ log[k].ans = "perm")

AllRefused ==
    /\ Len(log) = Len(DEFAULT_PW) + 1
    /\ \A i \in 1..Len(log) : log[i].cmd = "LOGIN" /\ log[i].ans = "perm"

\* C4: when every entry of DEFAULT_PW and the anonymous login are refused, ftp()
\* fails with the RuntimeError and the body is never run.
C4_AuthExhaustedIsRuntimeError ==
    (Done /\ AllRefused) => (result = Raised("RuntimeError") /\ ~yielded)

\* C5: when ftp() fails after the control connection was opened and before the
\* session is yielded, the control connection is closed when the error reaches
\* the caller.
C5_NoLeakOnFailedSetup ==
    (Done /\ result.kind = "raise" /\ ~yielded /\ sess # "none") => sess = "closed"

----------------------------------------------------------------------------
(* Claims about transfers *)

\* the text of ASCII bytes
AsciiText(bytes) == [i \in 1..Len(bytes) |-> Chr(bytes[i])]

UploadedTo(d, n) == lastUpload[d][n] \notin {Absent, Unknown}

DownloadReturned ==
    Done /\ op.name = "download_file_text" /\ result.kind = "return"

\* C6: a download of N from a directory returns exactly the content of the most
\* recent upload_file to N in that directory (uploads to other names and
\* directories, and earlier uploads to N, do not show), and an upload sends
\* nothing but the STOR once the session is set up.
C6_RoundTrip ==
    /\ (DownloadReturned /\ UploadedTo(PyOr(op.directory, DIRECTORY), op.filename)) =>
            contents = AsciiText(lastUpload[PyOr(op.directory, DIRECTORY)][op.filename])
    /\ (Done /\ op.name = "upload_file" /\ result.kind = "return") =>
            /\ files[PyOr(op.directory, DIRECTORY)][op.filename]
                    = lastUpload[PyOr(op.directory, DIRECTORY)][op.filename]
            /\ \E i \in 1..Len(log) :
                /\ log[i].cmd = "CWD" /\ log[i].ok
                /\ log[i + 1].cmd = "STOR" /\ log[i + 1].arg = op.filename

\* C6 witness: a download returned the two bytes uploaded over the one-byte
\* a.json the PLC held, handed over in two blocks
C6_Witness ==
    /\ DownloadReturned
    /\ ncalls = 2
    /\ PyOr(op.directory, DIRECTORY) = DIRECTORY
    /\ op.filename = "a.json"
    /\ Len(byte_chunks) = 2
    /\ lastUpload[DIRECTORY]["a.json"] = <<49, 49>>
    /\ contents = <<"1", "1">>

\* C7: without plc_filename, the file compare_file retrieves is the one named
\* as the base name of local_filename.
C7_DefaultsToBasename ==
    (op.name = "compare_file" /\ op.filename = None) =>
        \A i \in 1..Len(log) :
            log[i].cmd = "RETR" => log[i].arg = Basename(op.local_filename)

----------------------------------------------------------------------------
(* Claims about compare_file *)

\* a command whose failure ends the call: any but a refused default login and QUIT
Fatal(e) ==
    /\ ~e.ok
    /\ e.cmd # "QUIT"
    /\ e.cmd = "LOGIN" => (e.ans # "perm" \/ e.arg = "anonymous")

LocalLoadFailed == local_data = NoJson
Unreachable == ~LocalLoadFailed /\ sess = "none"
CommandFailed == \E i \in 1..Len(log) : Fatal(log[i])
Retrieved == \E i \in 1..Len(log) : log[i].cmd = "RETR" /\ log[i].ok
DeviceLoadFailed ==
    /\ Retrieved
    /\ \/ DecodeChunks(byte_chunks) = DecodeError
       \/ JsonLoads(DecodeChunks(byte_chunks)) = JsonError

\* C9: compare_file returns a value only if both documents were loaded; when
\* reading or parsing the local file, connecting, logging in, retrieving,
\* decoding or parsing the device file failed, it ends with that error.
C9_LoadFailurePropagates ==
    (Done /\ op.name = "compare_file") =>
        /\ (LocalLoadFailed =>
                /\ result.kind = "raise"
                /\ result.err \in {"FileNotFoundError", "UnicodeDecodeError", "JSONDecodeError"})
        /\ (Unreachable => result = Raised("Unreachable"))
        /\ (CommandFailed => result = Raised(ErrorOf(log[Len(log)].ans)))
        /\ (DeviceLoadFailed =>
                /\ result.kind = "raise"
                /\ result.err \in {"UnicodeDecodeError", "JSONDecodeError"})
        /\ (result.kind = "return" =>
                ~(LocalLoadFailed \/ Unreachable \/ CommandFailed \/ DeviceLoadFailed))

\* C9 witness: the device's file was retrieved and is no JSON document
C9_Witness ==
    /\ Done /\ op.name = "compare_file"
    /\ DeviceLoadFailed
    /\ result = Raised("JSONDecodeError")

----------------------------------------------------------------------------
(* Claims about the listing *)

\* the number of whitespace-separated tokens of a line: the places where a
\* character that is no space starts the line or follows a space
TokenCount(line) ==
    Cardinality({i \in 1..Len(line) : line[i] # " " /\ (i = 1 \/ line[i - 1] = " ")})

Malformed(line) == TokenCount(line) # 4

Listed == \E i \in 1..Len(log) : log[i].cmd = "LIST" /\ log[i].ok

ListFinished == Done /\ op.name = "list_file_info"

\* C11: from_list_line gives a ValueError and no record for every line that
\* does not have four tokens, and list_file_info, once the device answered the
\* LIST with such a line among its lines, raises that error and returns no
\* list.
C11_MalformedLineIsError ==
    /\ \A i \in 1..Len(lines) :
            Malformed(lines[i]) => from_list_line(lines[i]) = ValueError
    /\ (ListFinished /\ Listed /\ \E i \in 1..Len(lines) : Malformed(lines[i])) =>
            (result = Raised("ValueError") /\ info = <<>>)

\* C11 witness: a listing of the sample line followed by a line of five tokens
C11_Witness ==
    /\ ListFinished /\ Listed
    /\ Len(lines) = 2
    /\ lines[1] = SampleLine
    /\ TokenCount(lines[2]) = 5
    /\ result = Raised("ValueError")
    /\ info = <<>>

----------------------------------------------------------------------------
(* Claims about the steps of ftp() *)

Quits == {i \in 1..Len(log) : log[i].cmd = "QUIT"}

AfterWith == {"ValueError", "UnicodeDecodeError", "JSONDecodeError"}

\* C13: once the body of ftp() has ended, by returning or by raising, QUIT has
\* been sent and the session is closed (by quit, or by close when quit
\* failed) when the call ends, and an error of the call is never one of QUIT.
C13_TeardownBestEffort ==
    (Done /\ yielded) =>
        /\ Quits # {}
        /\ sess = "closed"
        /\ (result.kind = "raise" /\ \E i \in Quits : ~log[i].ok) => result.err \in AfterWith

DefaultRefused(e) == e.cmd = "LOGIN" /\ e.ans = "perm" /\ e.arg # "anonymous"

LoginFailed(e) == e.cmd = "LOGIN" /\ ~e.ok /\ ~DefaultRefused(e)

\* C14: a refused (error_perm) login of an entry of DEFAULT_PW is followed by
\* the next step of ftp(); any other failure of a login attempt is the last
\* command of the call, which ends with that error without yielding.
C14_OnlyRefusalIsSkipped ==
    \A i \in Logins :
        /\ LoginFailed(log[i]) =>
                /\ i = Len(log)
                /\ Done
                /\ result = Raised(ErrorOf(log[i].ans))
                /\ ~yielded
        /\ (DefaultRefused(log[i]) /\ i = Len(log)) =>
                /\ pc \in {"login", "anon", "nlst"}
                /\ result = NoResult

\* C14 witness: the second default login timed out after the first was refused
C14_Witness ==
    /\ Done
    /\ Len(log) = 2
    /\ DefaultRefused(log[1])
    /\ log[2].cmd = "LOGIN" /\ log[2].ans = "other"
    /\ result = Raised("error_other")

Last(q) == q[Len(q)]

\* the step sends cmd
Sent(cmd) == Len(log') = Len(log) + 1 /\ Last(log').cmd = cmd

\* the command before was cmd, and it was done
After(cmd) == log # <<>> /\ Last(log).cmd = cmd /\ Last(log).ok

WorkDir == PyOr(op.directory, DIRECTORY)

BodyCommands == {"LIST", "STOR", "RETR"}

\* C15: the root is listed only after an accepted login; MKD is sent, for the
\* working directory, exactly when the listing lacks it: right after a listing
\* without it, while CWD follows a listing that has it or the MKD; the body
\* runs logged in and after the CWD succeeded, and its commands are sent from
\* inside the working directory.
C15_SetupOrder ==
    /\ [][/\ (Sent("NLST") /\ pc = "nlst") => Accepted # {}
          /\ Sent("MKD") =>
                /\ After("NLST")
                /\ WorkDir \notin dirs
                /\ Last(log').arg = WorkDir
          /\ Sent("CWD") =>
                /\ Last(log').arg = WorkDir
                /\ WorkDir \in dirs
                /\ After("NLST") \/ After("MKD")
          /\ (After("NLST") /\ Last(log).cwd = "/" /\ WorkDir \notin dirs
                /\ Len(log') = Len(log) + 1) => Sent("MKD")
         ]_vars
    /\ [](pc = "body" =>
            /\ Accepted # {}
            /\ After("CWD")
            /\ rcwd = WorkDir)
    /\ [](\A i \in 1..Len(log) :
            (log[i].cmd \in BodyCommands \/ (log[i].cmd = "NLST" /\ log[i].cwd # "/")) =>
                log[i].cwd = WorkDir)

\* C15 witness: an upload with directory '' that found no pmps on the device
\* and made it
C15_Witness ==
    /\ Done /\ result = Returned
    /\ op.directory = ""
    /\ \E i \in 1..Len(log) :
        /\ log[i].cmd = "MKD" /\ log[i].ok /\ log[i].arg = DIRECTORY
        /\ log[i + 2].cmd = "STOR" /\ log[i + 2].cwd = DIRECTORY

DataCommands == {"NLST", "LIST", "STOR", "RETR"}

\* C16: every login attempt and every command that opens a data connection is
\* sent on a session whose passive mode is off.
C16_ActiveMode ==
    /\ \A i \in 1..Len(log) :
            log[i].cmd \in DataCommands \cup {"LOGIN"} => ~log[i].pasv
    /\ pc \in {"login", "anon", "nlst", "mkd", "cwd", "body"} => ~pasv

\* C16 witness: a LIST answered on an active-mode session
C16_Witness ==
    /\ ListFinished /\ Listed
    /\ \A i \in 1..Len(log) : ~log[i].pasv

\* C19: list_file_info applies from_list_line only once its session is
\* closed, so the ValueError of a line leaves no session open; when it returns,
\* info has one record for each line of the LIST answer, in the order of the
\* lines.
C19_ParseAfterRelease ==
    op.name = "list_file_info" =>
        /\ pc = "post" => (sess = "closed" /\ Listed)
        /\ info # <<>> => sess = "closed"
        /\ (Done /\ result = Raised("ValueError")) => (sess = "closed" /\ Quits # {})
        /\ (Done /\ result = Returned) =>
                /\ Len(info) = Len(lines)
                /\ \A i \in 1..Len(lines) :
                        /\ TokenCount(lines[i]) = 4
                        /\ info[i].filename = Split(lines[i])[4]

\* C19 witness: two lines listed, two records returned in the same order
C19_Witness ==
    /\ ListFinished /\ result = Returned
    /\ sess = "closed"
    /\ Len(info) = 2
    /\ info[1].filename = HostJson("plc1")
    /\ info[2].filename # HostJson("plc1")

\* C20: compare_file connects only after the local document is loaded, and
\* ends without connection or login attempt when that load fails; within a
\* call a control connection is opened at most once, from no connection at
\* all, and is not opened again once closed; a new call starts with no
\* connection and an empty command history.
C20_OneSessionPerCall ==
    /\ []((op.name = "compare_file" /\ (sess # "none" \/ log # <<>>)) =>
            local_data # NoJson)
    /\ []((Done /\ op.name = "compare_file" /\ local_data = NoJson) =>
            (sess = "none" /\ log = <<>> /\ result.kind = "raise"))
    /\ [][/\ (sess' = "open" /\ sess # "open") =>
                (sess = "none" /\ pc = "connect" /\ log = <<>> /\ ncalls' = ncalls)
          /\ (ncalls' = ncalls /\ sess # "none") => sess' # "none"
          /\ (ncalls' = ncalls /\ sess = "closed") => sess' = "closed"
          /\ ncalls' # ncalls => (sess' = "none" /\ user' = "none" /\ log' = <<>>)
         ]_vars

\* C20 witness: the second call of a run, a compare_file whose local file is
\* no JSON document, ended without a connection
C20_Witness ==
    /\ Done /\ op.name = "compare_file"
    /\ ncalls = 2
    /\ local_data = NoJson
    /\ sess = "none" /\ log = <<>>
    /\ result = Raised("JSONDecodeError")

----------------------------------------------------------------------------
(* PLCFile.from_list_line on its own, on lines of the LIST format and others *)

Months   == {2, 11, 12}
Days     == {4, 29, 31}
Years    == {0, 22, 24}
Hours    == {0, 23, 24}
Minutes  == {0, 59}
Sizes    == {0, 16439}
Gaps     == {1, 3}
Names    == {<<"b">>, HostJson("plc1")}

LineFields ==
    [month : Months, day : Days, year : Years, hour : Hours, minute : Minutes,
     size : Sizes, filename : Names, gap : Gaps]

LineOf(f) == ListLine(f.month, f.day, f.year, f.hour, f.minute, f.size, f.filename, f.gap)

\* a size with a sign, a date with a slash, a time without minutes
OtherLines ==
    {TwoDigits(1) \o <<"-">> \o TwoDigits(2) \o <<"-">> \o TwoDigits(23) \o Spaces(1)
        \o TwoDigits(0) \o <<":">> \o TwoDigits(0) \o Spaces(1) \o <<"-", "5">>
        \o Spaces(1) \o <<"b">>,
     TwoDigits(1) \o <<"/">> \o TwoDigits(2) \o <<"-">> \o TwoDigits(23) \o Spaces(1)
        \o TwoDigits(0) \o <<":">> \o TwoDigits(0) \o Spaces(1) \o <<"5">>
        \o Spaces(1) \o <<"b">>,
     TwoDigits(1) \o <<"-">> \o TwoDigits(2) \o <<"-">> \o TwoDigits(23) \o Spaces(1)
        \o TwoDigits(0) \o Spaces(1) \o <<"5">> \o Spaces(1) \o <<"b">>}

ParseInputs == {LineOf(f) : f \in LineFields} \cup ListLines \cup OtherLines

\* a line handed to PLCFile.from_list_line
InitParse ==
    /\ pc = "idle"
    /\ op = Op("none", None, None, None, <<>>)
    /\ ncalls = 0
    /\ sess = "none" /\ pasv = TRUE /\ rval = None /\ idx = 1
    /\ user = "none" /\ rcwd = "/" /\ yielded = FALSE /\ log = <<>>
    /\ FreshServer /\ lastUpload = files
    /\ byte_chunks = <<>> /\ contents = <<>> /\ names = {}
    /\ local_data = NoJson /\ plc_data = NoJson /\ same_file = FALSE
    /\ lines \in {<<line>> : line \in ParseInputs}
    /\ info = <<>>
    /\ caller = NoCaller /\ status = Text("") /\ upload_time = Text("") /\ device_list = <<>>
    /\ result = NoResult

\* PLCFile.from_list_line(line), called by itself
CallFromListLine ==
    /\ pc = "idle"
    /\ op' = Op("from_list_line", None, None, None, <<>>)
    /\ ncalls' = ncalls + 1
    /\ IF from_list_line(lines[1]) = ValueError
       THEN Raise("ValueError") /\ UNCHANGED info
       ELSE /\ info' = <<from_list_line(lines[1])>>
            /\ pc' = "done"
            /\ result' = Returned
    /\ UNCHANGED <<sessVars, srvVars, dataVars, lines, guiVars>>

NextParse == CallFromListLine

SpecParse == InitParse /\ [][NextParse]_vars

\* the dates of the lines above that the calendar has
OnCalendar(f) ==
    \/ f.day = 4
    \/ f.day = 29 /\ (f.month # 2 \/ f.year \in {0, 24})
    \/ f.day = 31 /\ f.month = 12

FixedFormat(f) == OnCalendar(f) /\ f.hour < 24

Parsed == Done /\ op.name = "from_list_line"

\* C12: a line MM-DD-YY HH:MM <size> <filename> with a date the calendar has
\* and a time of the day gives the record of its fourth token, of its size
\* (which is not negative) and of the minute it names in the year 2000 + YY;
\* the sample line gives kfe-motion.json, 16439, 2022-11-04 13:59.
C12_FixedFormatParses ==
    Parsed =>
        /\ \A f \in LineFields :
                (FixedFormat(f) /\ lines[1] = LineOf(f)) =>
                    /\ result = Returned
                    /\ info = <<[filename |-> f.filename,
                                 size |-> f.size,
                                 create_time |-> [year |-> 2000 + f.year, month |-> f.month,
                                                  day |-> f.day, hour |-> f.hour,
                                                  minute |-> f.minute]]>>
                    /\ info[1].size >= 0
                    /\ info[1].create_time.year >= 2000
        /\ lines[1] = SampleLine =>
                /\ result = Returned
                /\ info = <<[filename |-> <<"k", "f", "e", "-", "m", "o", "t", "i", "o", "n",
                                            ".", "j", "s", "o", "n">>,
                             size |-> 16439,
                             create_time |-> [year |-> 2022, month |-> 11, day |-> 4,
                                              hour |-> 13, minute |-> 59]]>>

\* C12 witness: the sample line parsed
C12_Witness ==
    /\ Parsed
    /\ lines[1] = SampleLine
    /\ result = Returned
    /\ info[1].size = 16439

----------------------------------------------------------------------------
(* Calls of every public function one after another, each with the default *)
(* directory                                                               *)

Sessions ==
    {c \in AllCalls : c.directory = None /\ c.filename \in {None, "a.json"}
                   /\ c.local_filename \in {<<>>, <<"a.json">>}}

Session == Start(Sessions, MaxTransfers)

NextSessions ==
    \/ Session
    \/ local_file_json_dict
    \/ upload_filename
    \/ Connect
    \/ SetPasv
    \/ Login
    \/ AnonymousLogin
    \/ Nlst
    \/ Mkd
    \/ Cwd
    \/ BodyNlst
    \/ BodyStor
    \/ BodyRetr
    \/ BodyList
    \/ Quit
    \/ Close
    \/ Return
    \/ ParseLines
    \/ Decode
    \/ Loads
    \/ Compare

SpecSessions == Init /\ [][NextSessions]_vars

----------------------------------------------------------------------------
(* PMPSManagerGui: one row of the PLC table, for the host plc1 *)

\* what subprocess.call(['ping', '-c', '1', hostname]) may do: return the exit
\* status 0, 1 or 2, or raise (no ping program)
Pings == {"0", "1", "2", "OSError"}

\* check_server_online: not subprocess.call(...), False on an exception
check_server_online(ping) == ping = "0"

\* for file_info in info: if file_info.filename == f'{hostname}.json': ... break
RECURSIVE UploadTimeText(_, _)
UploadTimeText(file_infos, hostname) ==
    IF file_infos = <<>> THEN Text("no file found")
    ELSE IF Head(file_infos).filename = HostJson(hostname)
    THEN ctime(Head(file_infos).create_time)
    ELSE UploadTimeText(Tail(file_infos), hostname)

InitGui ==
    /\ pc = "idle"
    /\ op = Op("none", None, None, None, <<>>)
    /\ ncalls = 0
    /\ sess = "none" /\ pasv = TRUE /\ rval = None /\ idx = 1
    /\ user = "none" /\ rcwd = "/" /\ yielded = FALSE /\ log = <<>>
    /\ FreshServer \/ ServerWith(<<49>>)
    /\ lastUpload = files
    /\ byte_chunks = <<>> /\ contents = <<>> /\ names = {}
    /\ local_data = NoJson /\ plc_data = NoJson /\ same_file = FALSE
    /\ lines = <<>> /\ info = <<>>
    /\ caller = NoCaller
    /\ status = Text("") /\ upload_time = Text("") /\ device_list = <<>>
    /\ result = NoResult

\* update_plc_row(row), lines 69-76: the status cell is set from the ping, then
\* list_file_info(hostname) is called
update_plc_row ==
    /\ pc \in {"idle", "handled"}
    /\ ncalls < MaxCalls
    /\ ncalls' = ncalls + 1
    /\ \E hostname \in Hosts, ping \in Pings :
        /\ caller' = [name |-> "update_plc_row", row |-> 0, ping |-> ping]
        /\ status' = IF check_server_online(ping) THEN Text("online") ELSE Text("offline")
        /\ op' = Op("list_file_info", hostname, None, None, <<>>)
    /\ pc' = "connect"
    /\ sess' = "none" /\ pasv' = TRUE /\ rval' = None /\ idx' = 1
    /\ user' = "none" /\ rcwd' = "/" /\ yielded' = FALSE /\ log' = <<>>
    /\ lines' = <<>> /\ info' = <<>>
    /\ result' = NoResult
    /\ UNCHANGED <<srvVars, dataVars, upload_time, device_list>>

\* mutant: info = list_file_info(hostname) outside any try
ShowUploadTimeUncaught ==
    /\ pc = "done"
    /\ caller.name = "update_plc_row"
    /\ pc' = "handled"
    /\ IF result.kind = "raise"
       THEN UNCHANGED <<upload_time, result>>
       ELSE /\ upload_time' = UploadTimeText(info, op.hostname)
            /\ result' = Returned
    /\ UNCHANGED <<callVars, sessVars, srvVars, dataVars, listVars, caller, status,
                   device_list>>

\* update_plc_row, lines 77-84: list_file_info has returned or raised
ShowUploadTime ==
    /\ pc = "done"
    /\ caller.name = "update_plc_row"
    /\ upload_time' = UploadTimeText(IF result.kind = "raise" THEN <<>> ELSE info,
                                     op.hostname)
    /\ pc' = "handled"
    /\ result' = Returned
    /\ UNCHANGED <<callVars, sessVars, srvVars, dataVars, listVars, caller, status,
                   device_list>>

\* plc_selected(row, col): its first statement, self.update_plc_row(), passes
\* no row to update_plc_row(self, row), so the call raises TypeError before
\* update_plc_row or fill_device_list run
plc_selected ==
    /\ pc \in {"idle", "handled"}
    /\ ncalls < MaxCalls
    /\ ncalls' = ncalls + 1
    /\ caller' = [name |-> "plc_selected", row |-> 0, ping |-> "none"]
    /\ op' = Op("none", None, None, None, <<>>)
    /\ pc' = "handled"
    /\ result' = Raised("TypeError")
    /\ UNCHANGED <<sessVars, srvVars, dataVars, listVars, status, upload_time,
                   device_list>>

NextGui ==
    \/ update_plc_row
    \/ plc_selected
    \/ Connect
    \/ SetPasv
    \/ Login
    \/ AnonymousLogin
    \/ Nlst
    \/ Mkd
    \/ Cwd
    \/ BodyList
    \/ Quit
    \/ Close
    \/ ParseLines
    \/ ShowUploadTime

SpecGui == InitGui /\ [][NextGui]_vars

UpdateEnded == pc = "handled" /\ caller.name = "update_plc_row"

\* list_file_info raised: the LIST was not answered, or a line did not parse
ListRaised ==
    ~Listed \/ \E i \in 1..Len(lines) : from_list_line(lines[i]) = ValueError

\* C17: update_plc_row always completes; when list_file_info raised, the
\* upload-time cell reads 'no file found'; the cell shows a creation time only
\* if the listing holds a record named '<hostname>.json', and then that
\* record's; the status cell reads 'offline' exactly when the ping did not
\* exit with 0.
C17_RowShowsFallback ==
    UpdateEnded =>
        /\ result = Returned
        /\ ListRaised => upload_time = Text("no file found")
        /\ upload_time.text \in {"no file found", "ctime"}
        /\ upload_time.text = "ctime" =>
                \E i \in 1..Len(info) :
                    /\ info[i].filename = HostJson(op.hostname)
                    /\ upload_time = ctime(info[i].create_time)
        /\ status \in {Text("online"), Text("offline")}
        /\ status = Text("offline") <=> caller.ping # "0"

\* C17 witness: the host answers neither the ping nor the FTP connection
C17_Witness ==
    /\ UpdateEnded
    /\ caller.ping = "1"
    /\ sess = "none"
    /\ status = Text("offline")
    /\ upload_time = Text("no file found")

\* the device names under the host's key in '<hostname>.json' on the device:
\* the devices of this model hold no such file
StoredDevices == <<>>

\* C18: plc_selected completes, and the device list then holds the device
\* names stored for the host on the device.
C18_SelectionSeedsDeviceList ==
    (pc = "handled" /\ caller.name = "plc_selected") =>
        /\ result = Returned
        /\ device_list = StoredDevices

----------------------------------------------------------------------------
(* compare_file on configuration documents: the comparison of line 397 on   *)
(* every pair of documents of bounded size, as loaded from the two files.    *)

KeyNames   == {"d1", "d2"}
ParamNames == {"p", "q"}
\* "1", 1, 1.0 and false
Scalars    == {[t |-> "str", v |-> 1], [t |-> "int", v |-> 1], [t |-> "float", v |-> 1],
               [t |-> "bool", v |-> 0]}

\* the sequences of at most n members of S, none twice
UniqueSeqs(S, n) ==
    {q \in UNION {[1..m -> S] : m \in 0..n} :
        \A i, j \in 1..Len(q) : i # j => q[i] # q[j]}

\* the dicts with keys among ks and values among vs, in every insertion order
DictsOver(ks, vs) ==
    UNION {{[t |-> "dict", items |-> [i \in 1..Len(keys) |-> [k |-> keys[i], v |-> vals[i]]]]
              : vals \in [1..Len(keys) -> vs]}
           : keys \in UniqueSeqs(ks, Cardinality(ks))}

RECURSIVE Entries(_, _)
Entries(doc, i) ==
    IF i > Len(doc.items) THEN 0
    ELSE Len(doc.items[i].v.items) + Entries(doc, i + 1)

ParamDicts == DictsOver(ParamNames, Scalars)

Documents == {doc \in DictsOver(KeyNames, ParamDicts) : Entries(doc, 1) <= MaxEntries}

\* compare_file has loaded both documents
InitCompare ==
    /\ pc = "compare"
    /\ op \in {c \in Calls : c.name = "compare_file" /\ c.directory = None
                             /\ c.filename = "a.json" /\ c.local_filename = <<"a.json">>}
    /\ ncalls = 1
    /\ sess = "closed" /\ pasv = FALSE /\ rval = "230" /\ idx = Len(DEFAULT_PW) + 1
    /\ user = "Administrator" /\ rcwd = DIRECTORY /\ yielded = TRUE /\ log = <<>>
    /\ dirs = {DIRECTORY}
    /\ files = [d \in DirNames |-> [n \in FileNames |-> Absent]]
    /\ lastUpload = [d \in DirNames |-> [n \in FileNames |-> Absent]]
    /\ byte_chunks = <<>> /\ contents = <<>> /\ names = {}
    /\ lines = <<>> /\ info = <<>>
    /\ caller = NoCaller /\ status = Text("") /\ upload_time = Text("") /\ device_list = <<>>
    /\ local_data \in Documents
    /\ plc_data \in Documents
    /\ same_file = FALSE
    /\ result = NoResult

NextCompare == Compare

SpecCompare == InitCompare /\ [][NextCompare]_vars

Compared == Done /\ op.name = "compare_file" /\ result.kind = "return"

\* the value a document holds for a parameter of a key, if it has that entry
Has(doc, key, param) ==
    \E i \in 1..Len(doc.items) :
        /\ doc.items[i].k = key
        /\ \E j \in 1..Len(doc.items[i].v.items) : doc.items[i].v.items[j].k = param

ValueOf(doc, key, param) ==
    LET i == CHOOSE i \in 1..Len(doc.items) : doc.items[i].k = key
        d == doc.items[i].v
        j == CHOOSE j \in 1..Len(d.items) : d.items[j].k = param
    IN  d.items[j].v

SameShape(a, b) ==
    \A key \in KeyNames :
        /\ (\E i \in 1..Len(a.items) : a.items[i].k = key)
                <=> (\E i \in 1..Len(b.items) : b.items[i].k = key)
        /\ \A param \in ParamNames : Has(a, key, param) <=> Has(b, key, param)

Slots(a) == {kp \in KeyNames \X ParamNames : Has(a, kp[1], kp[2])}

\* C8 as stated: documents of the same keys and parameter names with a value
\* of different type on the two sides compare unequal.
C8_TypeSensitive ==
    (Compared /\ SameShape(local_data, plc_data)
        /\ \E kp \in Slots(local_data) :
                ValueOf(local_data, kp[1], kp[2]).t # ValueOf(plc_data, kp[1], kp[2]).t)
    => same_file = FALSE

StrMismatch(x, y) == (x.t = "str") # (y.t = "str")

\* C8 as amended: a value that is a string on one side and a number or boolean
\* on the other makes the comparison false, whatever the values print as; if
\* no value differs that way, the result is whether all values are equal as
\* numbers (booleans as 0 and 1) or as strings.
C8_StringVersusNumber ==
    (Compared /\ SameShape(local_data, plc_data)) =>
        /\ (\E kp \in Slots(local_data) :
                StrMismatch(ValueOf(local_data, kp[1], kp[2]), ValueOf(plc_data, kp[1], kp[2])))
            => same_file = FALSE
        /\ (\A kp \in Slots(local_data) :
                ~StrMismatch(ValueOf(local_data, kp[1], kp[2]), ValueOf(plc_data, kp[1], kp[2])))
            => same_file = \A kp \in Slots(local_data) :
                    ValueOf(local_data, kp[1], kp[2]).v = ValueOf(plc_data, kp[1], kp[2]).v

\* C8 witness: the string "1" against the integer 1, compared unequal
C8_Witness ==
    /\ Compared /\ SameShape(local_data, plc_data)
    /\ \E kp \in Slots(local_data) :
        /\ ValueOf(local_data, kp[1], kp[2]) = [t |-> "str", v |-> 1]
        /\ ValueOf(plc_data, kp[1], kp[2]) = [t |-> "int", v |-> 1]
    /\ same_file = FALSE

\* the permutations of 1..n
Perms(n) == {f \in [1..n -> 1..n] : \A i, j \in 1..n : i # j => f[i] # f[j]}

MaxDictLen == IF Cardinality(KeyNames) > Cardinality(ParamNames)
              THEN Cardinality(KeyNames) ELSE Cardinality(ParamNames)

PermTable == [n \in 0..MaxDictLen |-> Perms(n)]

AllPerms == UNION {PermTable[n] : n \in 0..MaxDictLen}

Permute(items, f) == [i \in 1..Len(items) |-> items[f[i]]]

\* one permutation for the entries under each key of a document
InnerPerms(doc) ==
    {h \in [1..Len(doc.items) -> AllPerms] :
        \A i \in 1..Len(doc.items) : h[i] \in PermTable[Len(doc.items[i].v.items)]}

\* a document reordered: its keys by f, the entries under its i-th key by h[i]
Reorder(doc, f, h) ==
    [t |-> "dict",
     items |-> [i \in 1..Len(doc.items) |->
                  [k |-> doc.items[f[i]].k,
                   v |-> [t |-> "dict",
                          items |-> Permute(doc.items[f[i]].v.items, h[f[i]])]]]]

\* every listing of a document: its keys and the entries under each key in
\* any order
Orders(doc) ==
    {Reorder(doc, f, h) : f \in PermTable[Len(doc.items)], h \in InnerPerms(doc)}

OrdersTable == [doc \in Documents |-> Orders(doc)]

\* C10: reordering the keys or the parameter entries of the local document,
\* of the device document or of both does not change what compare_file
\* returns.
C10_OrderIndependent ==
    Compared =>
        \A l \in OrdersTable[local_data], p \in OrdersTable[plc_data] :
            PyEq(l, p) = same_file

\* C10 witness: equal documents whose keys are listed in different orders
C10_Witness ==
    /\ Compared
    /\ Len(local_data.items) = 2
    /\ Len(plc_data.items) = 2
    /\ local_data.items[1].k = plc_data.items[2].k
    /\ local_data.items[2].k = plc_data.items[1].k
    /\ Len(local_data.items[1].v.items) = 1
    /\ Len(local_data.items[2].v.items) = 1
    /\ same_file = TRUE

====
